---- MODULE Spec2Model ----
(***************************************************************************)
(* Model of the two scripts of prime-gaps:                                 *)
(*   strip_prime_cache.py  (CacheStripper)                                 *)
(*   plot.py               (GapPlotter)                                    *)
(* Files hold JSON text as a sequence of lexical tokens; json.dump and     *)
(* json.load are modelled as a serializer and a recursive-descent parser   *)
(* over those tokens.                                                      *)
(***************************************************************************)
EXTENDS Integers, Sequences, FiniteSets, TLC

\* ---------------------------------------------------------------- bounds
MaxLen == 4
MaxCount == 2
MaxRuns == 2

\* ---------------------------------------------------------------- JSON values
IntV(n) == [t |-> "int", n |-> n, items |-> <<>>]
ArrV(s) == [t |-> "arr", n |-> 0, items |-> s]
Pair(k, v) == [key |-> k, val |-> v]
ObjDoc(ps) == [t |-> "obj", n |-> 0, pairs |-> ps, items |-> <<>>]
ArrDoc(s) == [t |-> "arr", n |-> 0, pairs |-> <<>>, items |-> s]
IntDoc(k) == [t |-> "int", n |-> k, pairs |-> <<>>, items |-> <<>>]
NoDoc == [t |-> "none", n |-> 0, pairs |-> <<>>, items |-> <<>>]

Keys == {"PrimesSoFar", "GapCounter", "PrecomputedPrimes"}
DigitChar == <<"0", "1", "2", "3", "4", "5", "6", "7", "8", "9">>
DigitSet == {DigitChar[i] : i \in 1..10}
DigitVal(c) == (CHOOSE i \in 1..10 : DigitChar[i] = c) - 1

KeysOf(ps) == {ps[i].key : i \in 1..Len(ps)}
Lookup(ps, k) == ps[CHOOSE i \in 1..Len(ps) : ps[i].key = k].val

\* ---------------------------------------------------------------- json.dump
RECURSIVE Digits(_)
Digits(n) == IF n < 10 THEN <<DigitChar[n + 1]>>
             ELSE Digits(n \div 10) \o <<DigitChar[(n % 10) + 1]>>

RECURSIVE DumpItems(_)
DumpItems(s) == IF Len(s) = 0 THEN <<>>
                ELSE IF Len(s) = 1 THEN Digits(s[1])
                ELSE Digits(s[1]) \o <<", ">> \o DumpItems(Tail(s))

DumpArr(s) == <<"[">> \o DumpItems(s) \o <<"]">>

DumpVal(v) == IF v.t = "int" THEN Digits(v.n) ELSE DumpArr(v.items)

RECURSIVE DumpPairs(_)
DumpPairs(ps) ==
    IF Len(ps) = 0 THEN <<>>
    ELSE LET one == <<ps[1].key, ": ">> \o DumpVal(ps[1].val)
         IN IF Len(ps) = 1 THEN one
            ELSE one \o <<", ">> \o DumpPairs(Tail(ps))

Dump(d) == IF d.t = "obj" THEN <<"{">> \o DumpPairs(d.pairs) \o <<"}">>
           ELSE IF d.t = "arr" THEN DumpArr(d.items)
           ELSE Digits(d.n)

\* ---------------------------------------------------------------- json.load
Fail == [ok |-> FALSE, n |-> 0, items |-> <<>>, rest |-> <<>>]

RECURSIVE ParseDigits(_, _)
ParseDigits(toks, acc) ==
    IF Len(toks) > 0 /\ toks[1] \in DigitSet
    THEN ParseDigits(Tail(toks), acc * 10 + DigitVal(toks[1]))
    ELSE [ok |-> TRUE, n |-> acc, items |-> <<>>, rest |-> toks]

\* a JSON number: "0", or a non-zero digit followed by digits
ParseInt(toks) ==
    IF Len(toks) = 0 \/ toks[1] \notin DigitSet THEN Fail
    ELSE IF toks[1] = "0"
         THEN [ok |-> TRUE, n |-> 0, items |-> <<>>, rest |-> Tail(toks)]
         ELSE ParseDigits(toks, 0)

RECURSIVE ParseElems(_, _)
ParseElems(toks, acc) ==
    LET r == ParseInt(toks)
    IN IF ~r.ok \/ Len(r.rest) = 0 THEN Fail
       ELSE IF r.rest[1] = "]"
            THEN [ok |-> TRUE, n |-> 0, items |-> Append(acc, r.n),
                  rest |-> Tail(r.rest)]
       ELSE IF r.rest[1] = ", "
            THEN ParseElems(Tail(r.rest), Append(acc, r.n))
       ELSE Fail

\* toks[1] = "["
ParseArr(toks) ==
    IF Len(toks) < 2 THEN Fail
    ELSE IF toks[2] = "]"
         THEN [ok |-> TRUE, n |-> 0, items |-> <<>>, rest |-> SubSeq(toks, 3, Len(toks))]
         ELSE ParseElems(Tail(toks), <<>>)

ParseVal(toks) ==
    IF Len(toks) = 0 THEN [ok |-> FALSE, val |-> IntV(0), rest |-> <<>>]
    ELSE IF toks[1] = "["
         THEN LET r == ParseArr(toks)
              IN [ok |-> r.ok, val |-> ArrV(r.items), rest |-> r.rest]
         ELSE LET r == ParseInt(toks)
              IN [ok |-> r.ok, val |-> IntV(r.n), rest |-> r.rest]

\* dict insertion: a repeated key keeps its position and takes the last value
Put(ps, k, v) ==
    IF k \in KeysOf(ps)
    THEN [i \in 1..Len(ps) |-> IF ps[i].key = k THEN Pair(k, v) ELSE ps[i]]
    ELSE Append(ps, Pair(k, v))

DocFail == [ok |-> FALSE, doc |-> NoDoc, rest |-> <<>>]

RECURSIVE ParseMembers(_, _)
ParseMembers(toks, acc) ==
    IF Len(toks) < 3 \/ toks[1] \notin Keys \/ toks[2] # ": " THEN DocFail
    ELSE LET r == ParseVal(SubSeq(toks, 3, Len(toks)))
         IN IF ~r.ok \/ Len(r.rest) = 0 THEN DocFail
            ELSE IF r.rest[1] = "}"
                 THEN [ok |-> TRUE, doc |-> ObjDoc(Put(acc, toks[1], r.val)),
                       rest |-> Tail(r.rest)]
            ELSE IF r.rest[1] = ", "
                 THEN ParseMembers(Tail(r.rest), Put(acc, toks[1], r.val))
            ELSE DocFail

ParseTop(toks) ==
    IF Len(toks) = 0 THEN DocFail
    ELSE IF toks[1] = "{"
         THEN IF Len(toks) >= 2 /\ toks[2] = "}"
              THEN [ok |-> TRUE, doc |-> ObjDoc(<<>>), rest |-> SubSeq(toks, 3, Len(toks))]
              ELSE ParseMembers(Tail(toks), <<>>)
    ELSE IF toks[1] = "["
         THEN LET r == ParseArr(toks)
              IN [ok |-> r.ok, doc |-> ArrDoc(r.items), rest |-> r.rest]
    ELSE LET r == ParseInt(toks)
         IN [ok |-> r.ok, doc |-> IntDoc(r.n), rest |-> r.rest]

\* json.load: the whole text must be one document ("Extra data" otherwise)
Load(toks) ==
    LET r == ParseTop(toks)
    IN IF r.ok /\ Len(r.rest) = 0 THEN [ok |-> TRUE, doc |-> r.doc]
       ELSE [ok |-> FALSE, doc |-> NoDoc]

\* ---------------------------------------------------------------- files
Absent == [exists |-> FALSE, data |-> <<>>]
File(toks) == [exists |-> TRUE, data |-> toks]

NoArg == "<missing>"
InPath == "a.json"
OutPaths == {"a.json", "b.json"}
InfoPath == "info.json"
Paths == OutPaths \cup {InfoPath}

NoPlot == [exists |-> FALSE, title |-> 0, xlabel |-> "", ylabel |-> "", points |-> <<>>]

\* ---------------------------------------------------------------- inputs
GapCounters == UNION {[1..n -> 0..MaxCount] : n \in 0..MaxLen}
StripGaps == {<<>>, <<0>>, <<5, 0, 13>>}
PrimeCounts == {1, 100}
Cache == <<2, 3, 5>>

Opt(b, k, v) == IF b THEN <<Pair(k, v)>> ELSE <<>>

MkDoc(hp, p, hg, g, hc, cfirst) ==
    LET body == Opt(hp, "PrimesSoFar", IntV(p)) \o Opt(hg, "GapCounter", ArrV(g))
        cache == Opt(hc, "PrecomputedPrimes", ArrV(Cache))
    IN ObjDoc(IF cfirst THEN cache \o body ELSE body \o cache)

DocsOver(gaps) ==
    {MkDoc(hp, p, hg, g, hc, cf) :
        hp \in BOOLEAN, p \in PrimeCounts, hg \in BOOLEAN, g \in gaps,
        hc \in BOOLEAN, cf \in BOOLEAN}
    \cup {ArrDoc(Cache)}

\* the text of a document, whole or cut short by one token
TextsOf(docs) ==
    {File(Dump(d)) : d \in docs}
    \cup {File(SubSeq(Dump(d), 1, Len(Dump(d)) - 1)) : d \in docs}

OldText == File(<<"[", "7", "]">>)

\* ---------------------------------------------------------------- state
VARIABLES prog, argIn, argOut, pc, fs, plotFiles, open, val, pending,
          err, exitCode, runs, accessed,
          num_primes, ys, xs, last_nonzero_y, logys, fig,
          fs0, plotFiles0, firstResult

args == <<prog, argIn, argOut>>
plotVars == <<num_primes, ys, xs, last_nonzero_y, logys, fig>>
hist == <<fs0, plotFiles0, firstResult>>
vars == <<prog, argIn, argOut, pc, fs, plotFiles, open, val, pending,
          err, exitCode, runs, accessed,
          num_primes, ys, xs, last_nonzero_y, logys, fig,
          fs0, plotFiles0, firstResult>>

NoFig == [created |-> FALSE, title |-> 0, xlabel |-> "", ylabel |-> "", points |-> <<>>]
NoResult == [set |-> FALSE, file |-> Absent]

InitLocals ==
    /\ open = {}
    /\ val = NoDoc
    /\ pending = <<>>
    /\ err = "none"
    /\ exitCode = -1
    /\ runs = 1
    /\ accessed = {}
    /\ num_primes = 0
    /\ ys = <<>>
    /\ xs = <<>>
    /\ last_nonzero_y = -1
    /\ logys = <<>>
    /\ fig = NoFig
    /\ firstResult = NoResult

InitStrip ==
    /\ prog = "strip"
    /\ pc = "start"
    /\ argIn \in {NoArg, InPath}
    /\ argOut \in {NoArg} \cup OutPaths
    /\ \E fin \in {Absent} \cup TextsOf(DocsOver(StripGaps)), fother \in {Absent, OldText} :
          fs = [p \in Paths |-> IF p = InPath THEN fin
                                ELSE IF p = InfoPath THEN Absent ELSE fother]
    /\ plotFiles = [n \in PrimeCounts |-> NoPlot]

InitPlot ==
    /\ prog = "plot"
    /\ pc = "p_open"
    /\ argIn = NoArg
    /\ argOut = NoArg
    /\ \E fin \in {Absent} \cup TextsOf(DocsOver(GapCounters)) :
          fs = [p \in Paths |-> IF p = InfoPath THEN fin ELSE Absent]
    /\ \E old \in BOOLEAN :
          plotFiles = [n \in PrimeCounts |->
                          IF old THEN [NoPlot EXCEPT !.exists = TRUE] ELSE NoPlot]

Init ==
    /\ InitLocals
    /\ (InitStrip \/ InitPlot)
    /\ fs0 = fs
    /\ plotFiles0 = plotFiles

\* an uncaught exception: the interpreter prints the traceback and exits 1
Raise(e) ==
    /\ pc' = "exit"
    /\ err' = e
    /\ exitCode' = 1

\* ---------------------------------------------------------------- strip_prime_cache.py
\* --outfile declared without required=True
ParseArgsOutOptional ==
    /\ prog = "strip"
    /\ pc = "start"
    /\ IF argIn = NoArg
       THEN /\ pc' = "exit"
            /\ err' = "usage"
            /\ exitCode' = 2
       ELSE /\ pc' = "open_in"
            /\ UNCHANGED <<err, exitCode>>
    /\ UNCHANGED <<args, fs, plotFiles, open, val, pending, runs, accessed,
                   plotVars, hist>>

\* main(): argparse with two required options
ParseArgs ==
    /\ prog = "strip"
    /\ pc = "start"
    /\ IF argIn = NoArg \/ argOut = NoArg
       THEN /\ pc' = "exit"
            /\ err' = "usage"
            /\ exitCode' = 2
       ELSE /\ pc' = "open_in"
            /\ UNCHANGED <<err, exitCode>>
    /\ UNCHANGED <<args, fs, plotFiles, open, val, pending, runs, accessed,
                   plotVars, hist>>

\* with open(infile, 'r') as f_in
OpenIn ==
    /\ pc = "open_in"
    /\ accessed' = accessed \cup {<<argIn, "r">>}
    /\ IF fs[argIn].exists
       THEN /\ open' = open \cup {"f_in"}
            /\ pc' = "load"
            /\ UNCHANGED <<err, exitCode>>
       ELSE /\ Raise("FileNotFoundError")
            /\ UNCHANGED open
    /\ UNCHANGED <<args, fs, plotFiles, val, pending, runs, plotVars, hist>>

\* f_in closed by hand after json.load, so not when json.load raises
LoadInLeak ==
    /\ pc = "load"
    /\ LET r == Load(fs[argIn].data)
       IN IF r.ok
          THEN /\ val' = r.doc
               /\ pc' = "del"
               /\ open' = open \ {"f_in"}
               /\ UNCHANGED <<err, exitCode>>
          ELSE /\ Raise("JSONDecodeError")
               /\ UNCHANGED <<val, open>>
    /\ UNCHANGED <<args, fs, plotFiles, pending, runs, accessed, plotVars, hist>>

\* val = json.load(f_in); leaving the with block closes f_in either way
LoadIn ==
    /\ pc = "load"
    /\ LET r == Load(fs[argIn].data)
       IN IF r.ok
          THEN /\ val' = r.doc
               /\ pc' = "del"
               /\ UNCHANGED <<err, exitCode>>
          ELSE /\ Raise("JSONDecodeError")
               /\ UNCHANGED val
    /\ open' = open \ {"f_in"}
    /\ UNCHANGED <<args, fs, plotFiles, pending, runs, accessed, plotVars, hist>>

\* del by position instead of by key
RemoveFirst(ps, k) == Tail(ps)

Remove(ps, k) == SelectSeq(ps, LAMBDA q : q.key # k)

\* val.pop('PrecomputedPrimes', None): a missing key is ignored
DelKeySilent ==
    /\ pc = "del"
    /\ IF val.t # "obj"
       THEN /\ Raise("TypeError")
            /\ UNCHANGED val
       ELSE /\ val' = ObjDoc(Remove(val.pairs, "PrecomputedPrimes"))
            /\ pc' = "open_out"
            /\ UNCHANGED <<err, exitCode>>
    /\ UNCHANGED <<args, fs, plotFiles, open, pending, runs, accessed, plotVars, hist>>

\* del val['PrecomputedPrimes']
DelKey ==
    /\ pc = "del"
    /\ IF val.t # "obj"
       THEN /\ Raise("TypeError")
            /\ UNCHANGED val
       ELSE IF "PrecomputedPrimes" \notin KeysOf(val.pairs)
       THEN /\ Raise("KeyError")
            /\ UNCHANGED val
       ELSE /\ val' = ObjDoc(Remove(val.pairs, "PrecomputedPrimes"))
            /\ pc' = "open_out"
            /\ UNCHANGED <<err, exitCode>>
    /\ UNCHANGED <<args, fs, plotFiles, open, pending, runs, accessed, plotVars, hist>>

\* open(infile, 'w'): the wrong parameter is opened for writing
OpenOutSwapped ==
    /\ pc = "open_out"
    /\ accessed' = accessed \cup {<<argIn, "w">>}
    /\ fs' = [fs EXCEPT ![argIn] = File(<<>>)]
    /\ open' = open \cup {"f_out"}
    /\ pending' = Dump(val)
    /\ pc' = "dump"
    /\ UNCHANGED <<args, plotFiles, val, err, exitCode, runs, plotVars, hist>>

\* open(outfile, 'a'): an existing file is kept and appended to
OpenOutAppend ==
    /\ pc = "open_out"
    /\ accessed' = accessed \cup {<<argOut, "w">>}
    /\ fs' = [fs EXCEPT ![argOut] = IF @.exists THEN @ ELSE File(<<>>)]
    /\ open' = open \cup {"f_out"}
    /\ pending' = Dump(val)
    /\ pc' = "dump"
    /\ UNCHANGED <<args, plotFiles, val, err, exitCode, runs, plotVars, hist>>

\* with open(outfile, 'w') as f_out: mode 'w' creates or truncates the file
OpenOut ==
    /\ pc = "open_out"
    /\ accessed' = accessed \cup {<<argOut, "w">>}
    /\ fs' = [fs EXCEPT ![argOut] = File(<<>>)]
    /\ open' = open \cup {"f_out"}
    /\ pending' = Dump(val)
    /\ pc' = "dump"
    /\ UNCHANGED <<args, plotFiles, val, err, exitCode, runs, plotVars, hist>>

\* open(outfile, 'w') refused by the system (permissions, missing directory)
OpenOutFail ==
    /\ pc = "open_out"
    /\ accessed' = accessed \cup {<<argOut, "w">>}
    /\ Raise("OSError")
    /\ UNCHANGED <<args, fs, plotFiles, open, val, pending, runs, plotVars, hist>>

\* json.dump(val, f_out): one f_out.write per chunk of the encoder
DumpChunk ==
    /\ pc = "dump"
    /\ Len(pending) > 0
    /\ fs' = [fs EXCEPT ![argOut].data = Append(@, Head(pending))]
    /\ pending' = Tail(pending)
    /\ UNCHANGED <<args, pc, plotFiles, open, val, err, exitCode, runs, accessed,
                   plotVars, hist>>

\* a write is refused (disk full, I/O error): the with block closes f_out
\* and the exception leaves the function
DumpFail ==
    /\ pc = "dump"
    /\ open' = open \ {"f_out"}
    /\ Raise("OSError")
    /\ UNCHANGED <<args, fs, plotFiles, val, pending, runs, accessed, plotVars, hist>>

\* end of the with block: f_out is closed, main returns
CloseOut ==
    /\ pc = "dump"
    /\ Len(pending) = 0
    /\ open' = open \ {"f_out"}
    /\ pc' = "exit"
    /\ exitCode' = 0
    /\ firstResult' = IF runs = 1 THEN [set |-> TRUE, file |-> fs[argOut]]
                      ELSE firstResult
    /\ UNCHANGED <<args, fs, plotFiles, val, pending, err, runs, accessed,
                   plotVars, fs0, plotFiles0>>

\* the script is invoked again with the same command line
Rerun ==
    /\ pc = "exit"
    /\ runs < MaxRuns
    /\ runs' = runs + 1
    /\ pc' = IF prog = "strip" THEN "start" ELSE "p_open"
    /\ open' = {}
    /\ val' = NoDoc
    /\ pending' = <<>>
    /\ err' = "none"
    /\ exitCode' = -1
    /\ accessed' = {}
    /\ num_primes' = 0
    /\ ys' = <<>>
    /\ xs' = <<>>
    /\ last_nonzero_y' = -1
    /\ logys' = <<>>
    /\ fig' = NoFig
    /\ fs0' = fs
    /\ plotFiles0' = plotFiles
    /\ UNCHANGED <<args, fs, plotFiles, firstResult>>

\* ---------------------------------------------------------------- plot.py
\* natural logarithm in thousandths, rounded; np.log(0) is -inf under
\* np.errstate(divide='ignore')
LnMilli == <<0, 693, 1099, 1386, 1609, 1792, 1946, 2079, 2197>>
NegInf == [inf |-> TRUE, milli |-> 0]
NpLog(c) == IF c = 0 THEN NegInf ELSE [inf |-> FALSE, milli |-> LnMilli[c]]

\* np.nonzero applied after the first entry was dropped
NpNonzeroSkipFirst(s) ==
    LET idx == [i \in 1..Len(s) |-> i - 1]
    IN SelectSeq(idx, LAMBDA i : i > 0 /\ s[i + 1] # 0)

\* np.nonzero on a 1-d array: the 0-based indices of the nonzero entries
NpNonzero(s) ==
    LET idx == [i \in 1..Len(s) |-> i - 1]
    IN SelectSeq(idx, LAMBDA i : s[i + 1] # 0)

\* np.min in place of np.max
NpMin(s) == CHOOSE m \in {s[i] : i \in 1..Len(s)} : \A j \in 1..Len(s) : s[j] >= m

\* np.max of a non-empty array
NpMax(s) == CHOOSE m \in {s[i] : i \in 1..Len(s)} : \A j \in 1..Len(s) : s[j] <= m

\* np.arange(n) * 2
Arange2(n) == [i \in 1..n |-> (i - 1) * 2]

\* with open('info.json', 'r') as f_in
PlotOpenIn ==
    /\ pc = "p_open"
    /\ accessed' = accessed \cup {<<InfoPath, "r">>}
    /\ IF fs[InfoPath].exists
       THEN /\ open' = open \cup {"f_in"}
            /\ pc' = "p_load"
            /\ UNCHANGED <<err, exitCode>>
       ELSE /\ Raise("FileNotFoundError")
            /\ UNCHANGED open
    /\ UNCHANGED <<args, fs, plotFiles, val, pending, runs, plotVars, hist>>

\* info = json.load(f_in); leaving the with block closes f_in either way
PlotLoad ==
    /\ pc = "p_load"
    /\ LET r == Load(fs[InfoPath].data)
       IN IF r.ok
          THEN /\ val' = r.doc
               /\ pc' = "p_fields"
               /\ UNCHANGED <<err, exitCode>>
          ELSE /\ Raise("JSONDecodeError")
               /\ UNCHANGED val
    /\ open' = open \ {"f_in"}
    /\ UNCHANGED <<args, fs, plotFiles, pending, runs, accessed, plotVars, hist>>

\* num_primes = info['PrimesSoFar']; ys = np.array(info['GapCounter'])
ReadFields ==
    /\ pc = "p_fields"
    /\ IF val.t # "obj"
       THEN /\ Raise("TypeError")
            /\ UNCHANGED <<num_primes, ys>>
       ELSE IF ~({"PrimesSoFar", "GapCounter"} \subseteq KeysOf(val.pairs))
       THEN /\ Raise("KeyError")
            /\ UNCHANGED <<num_primes, ys>>
       ELSE /\ num_primes' = Lookup(val.pairs, "PrimesSoFar").n
            /\ ys' = Lookup(val.pairs, "GapCounter").items
            /\ pc' = "p_nonzero"
            /\ UNCHANGED <<err, exitCode>>
    /\ UNCHANGED <<args, fs, plotFiles, open, val, pending, runs, accessed,
                   xs, last_nonzero_y, logys, fig, hist>>

\* np.max(..., initial=0): an empty index array yields 0 instead of raising
LastNonzeroInitial ==
    /\ pc = "p_nonzero"
    /\ last_nonzero_y' = IF Len(NpNonzero(ys)) = 0 THEN 0 ELSE NpMax(NpNonzero(ys))
    /\ pc' = "p_trunc"
    /\ UNCHANGED <<args, fs, plotFiles, open, val, pending, err, exitCode, runs, accessed,
                   num_primes, ys, xs, logys, fig, hist>>

\* last_nonzero_y = np.max(np.nonzero(ys)): np.max of an empty array raises
LastNonzero ==
    /\ pc = "p_nonzero"
    /\ IF Len(NpNonzero(ys)) = 0
       THEN /\ Raise("ValueError")
            /\ UNCHANGED last_nonzero_y
       ELSE /\ last_nonzero_y' = NpMax(NpNonzero(ys))
            /\ pc' = "p_trunc"
            /\ UNCHANGED <<err, exitCode>>
    /\ UNCHANGED <<args, fs, plotFiles, open, val, pending, runs, accessed,
                   num_primes, ys, xs, logys, fig, hist>>

\* ys = ys[:last_nonzero_y + 1]; xs = np.arange(len(ys)) * 2
Truncate ==
    /\ pc = "p_trunc"
    /\ ys' = SubSeq(ys, 1, last_nonzero_y + 1)
    /\ xs' = Arange2(Len(ys'))
    /\ pc' = "p_drop"
    /\ UNCHANGED <<args, fs, plotFiles, open, val, pending, err, exitCode, runs,
                   accessed, num_primes, last_nonzero_y, logys, fig, hist>>

\* ys = ys[1:]; xs = xs[1:]
DropFirst ==
    /\ pc = "p_drop"
    /\ ys' = SubSeq(ys, 2, Len(ys))
    /\ xs' = SubSeq(xs, 2, Len(xs))
    /\ pc' = "p_log"
    /\ UNCHANGED <<args, fs, plotFiles, open, val, pending, err, exitCode, runs,
                   accessed, num_primes, last_nonzero_y, logys, fig, hist>>

\* with np.errstate(divide='ignore'): ys = np.log(ys)
TakeLog ==
    /\ pc = "p_log"
    /\ logys' = [i \in 1..Len(ys) |-> NpLog(ys[i])]
    /\ pc' = "p_fig"
    /\ UNCHANGED <<args, fs, plotFiles, open, val, pending, err, exitCode, runs,
                   accessed, num_primes, ys, xs, last_nonzero_y, fig, hist>>

\* fig, ax = plt.subplots(); title and axis labels
MakeFigure ==
    /\ pc = "p_fig"
    /\ fig' = [created |-> TRUE, title |-> num_primes, xlabel |-> "Gap Size",
               ylabel |-> "log(n)", points |-> <<>>]
    /\ pc' = "p_scatter"
    /\ UNCHANGED <<args, fs, plotFiles, open, val, pending, err, exitCode, runs,
                   accessed, num_primes, ys, xs, last_nonzero_y, logys, hist>>

\* ax.scatter(xs, ys)
Scatter ==
    /\ pc = "p_scatter"
    /\ fig' = [fig EXCEPT !.points = [i \in 1..Len(xs) |-> <<xs[i], logys[i]>>]]
    /\ pc' = "p_save"
    /\ UNCHANGED <<args, fs, plotFiles, open, val, pending, err, exitCode, runs,
                   accessed, num_primes, ys, xs, last_nonzero_y, logys, hist>>

\* plt.savefig(f'plot_{num_primes}.png'), then main returns
SaveFig ==
    /\ pc = "p_save"
    /\ plotFiles' = [plotFiles EXCEPT ![num_primes] =
                        [exists |-> TRUE, title |-> fig.title, xlabel |-> fig.xlabel,
                         ylabel |-> fig.ylabel, points |-> fig.points]]
    /\ pc' = "exit"
    /\ exitCode' = 0
    /\ UNCHANGED <<args, fs, open, val, pending, err, runs, accessed, plotVars, hist>>

\* ---------------------------------------------------------------- specification
Next ==
    \/ ParseArgs
    \/ OpenIn
    \/ LoadIn
    \/ DelKey
    \/ OpenOut
    \/ OpenOutFail
    \/ DumpChunk
    \/ DumpFail
    \/ CloseOut
    \/ PlotOpenIn
    \/ PlotLoad
    \/ ReadFields
    \/ LastNonzero
    \/ Truncate
    \/ DropFirst
    \/ TakeLog
    \/ MakeFigure
    \/ Scatter
    \/ SaveFig
    \/ Rerun

Spec == Init /\ [][Next]_vars

\* ---------------------------------------------------------------- properties
StripRan == prog = "strip" /\ argIn # NoArg /\ argOut # NoArg
StripDone == StripRan /\ pc = "exit" /\ exitCode = 0

\* the input document as it was when the current run started
InputDoc == Load(fs0[argIn].data)
OutputDoc == Load(fs[argOut].data)
InputLacksKey ==
    /\ StripRan
    /\ fs0[argIn].exists
    /\ InputDoc.ok
    /\ InputDoc.doc.t = "obj"
    /\ "PrecomputedPrimes" \notin KeysOf(InputDoc.doc.pairs)

\* C1: after a successful strip, parsing the output file yields a mapping whose
\* keys are the input's keys minus PrecomputedPrimes, each with the input's value
C1_RoundTripMinusField ==
    StripDone =>
        /\ OutputDoc.ok
        /\ OutputDoc.doc.t = "obj"
        /\ "PrecomputedPrimes" \in KeysOf(InputDoc.doc.pairs)
        /\ KeysOf(OutputDoc.doc.pairs)
              = KeysOf(InputDoc.doc.pairs) \ {"PrecomputedPrimes"}
        /\ \A k \in KeysOf(OutputDoc.doc.pairs) :
              Lookup(OutputDoc.doc.pairs, k) = Lookup(InputDoc.doc.pairs, k)

C1_Witness ==
    /\ StripDone
    /\ Cardinality(KeysOf(InputDoc.doc.pairs)) = 3
    /\ InputDoc.doc.pairs[1].key = "PrecomputedPrimes"
    /\ Cardinality(KeysOf(OutputDoc.doc.pairs)) = 2

\* C2: after a failed strip the output path holds its previous content or a
\* complete stripped document, never a truncated or partial one
C2_NoPartialOutput ==
    (StripRan /\ pc = "exit" /\ exitCode # 0) =>
        \/ fs[argOut] = fs0[argOut]
        \/ /\ val.t = "obj"
           /\ "PrecomputedPrimes" \notin KeysOf(val.pairs)
           /\ fs[argOut] = File(Dump(val))

\* C3: an input mapping without PrecomputedPrimes makes the run fail with
\* KeyError, and the output path is never opened for writing nor changed
C3_MissingKeyFails ==
    InputLacksKey =>
        /\ <<argOut, "w">> \notin accessed
        /\ "f_out" \notin open
        /\ fs[argOut] = fs0[argOut]
        /\ pc = "exit" => (err = "KeyError" /\ exitCode = 1)

C3_Witness ==
    /\ InputLacksKey
    /\ pc = "exit"
    /\ err = "KeyError"
    /\ argOut # argIn
    /\ fs[argOut] = OldText

\* C4 as stated: the input file is never modified, whatever the two paths are
C4_InputNeverModified ==
    StripRan => fs[argIn] = fs0[argIn]

\* C4 amended: when the input and the output path designate distinct files,
\* the input file is not modified, on successful and on failing runs
C4_InputUnmodifiedDistinct ==
    (StripRan /\ argIn # argOut) => fs[argIn] = fs0[argIn]

C4_Witness ==
    /\ StripDone
    /\ argIn # argOut
    /\ fs[argOut] # fs0[argOut]
    /\ fs[argIn] = fs0[argIn]

\* C5: a missing -i or -o ends the run with a usage error and exit status 2
\* without any file being opened, read or written, and no file is opened
\* before argument parsing has succeeded
C5_ArgsBeforeFiles ==
    prog = "strip" =>
        /\ (argIn = NoArg \/ argOut = NoArg) =>
              /\ accessed = {}
              /\ open = {}
              /\ fs = fs0
              /\ pc = "exit" => (err = "usage" /\ exitCode = 2)
        /\ pc = "start" => (accessed = {} /\ open = {} /\ fs = fs0)

C5_Witness ==
    /\ prog = "strip"
    /\ argIn # NoArg
    /\ argOut = NoArg
    /\ fs[argIn].exists
    /\ pc = "exit"
    /\ err = "usage"

\* C6: with distinct paths, a second successful run leaves the output file with
\* exactly the content the first run left, and a run after a successful one
\* never fails on the document itself
C6_Idempotent ==
    (StripRan /\ argIn # argOut /\ runs >= 2 /\ firstResult.set /\ pc = "exit") =>
        /\ exitCode = 0 => fs[argOut] = firstResult.file
        /\ err \in {"none", "OSError"}

C6_Witness ==
    /\ StripDone
    /\ argIn # argOut
    /\ runs = 2
    /\ firstResult.set
    /\ fs0[argOut] = firstResult.file
    /\ Len(fs[argOut].data) > 2

\* C9: at most one handle is open at a time, f_in is open only during the
\* read step, f_out only during the write step, and none at termination
C9_HandlesScoped ==
    /\ Cardinality(open) <= 1
    /\ "f_in" \in open => pc \in {"load", "p_load"}
    /\ "f_out" \in open => pc = "dump"
    /\ pc = "exit" => open = {}

C9_Witness ==
    /\ StripRan
    /\ pc = "exit"
    /\ err = "OSError"
    /\ pending # <<>>
    /\ Len(fs[argOut].data) > 0
    /\ open = {}

\* ---------------------------------------------------------------- GapPlotter properties
\* the report was parsed and holds both required fields
PlotHasFields ==
    /\ prog = "plot"
    /\ val.t = "obj"
    /\ {"PrimesSoFar", "GapCounter"} \subseteq KeysOf(val.pairs)

\* GapCounter as it stands in the parsed report (0-based index i is at i + 1)
GapCounter == Lookup(val.pairs, "GapCounter").items
PrimesSoFar == Lookup(val.pairs, "PrimesSoFar").n
HasNonzero == \E i \in 1..Len(GapCounter) : GapCounter[i] # 0
HighestNonzero ==
    CHOOSE m \in 0..(Len(GapCounter) - 1) :
        /\ GapCounter[m + 1] # 0
        /\ \A j \in (m + 1)..(Len(GapCounter) - 1) : GapCounter[j + 1] = 0
ExpectedPoints == [i \in 1..HighestNonzero |-> <<2 * i, NpLog(GapCounter[i + 1])>>]

\* C7: with a nonzero entry and m the highest nonzero index, the points passed
\* to the scatter plot are exactly (2*i, ln(GapCounter[i])) for i = 1..m in
\* order, a zero count inside that range being kept as negative infinity, and
\* the run completes without error
C7_PlottedPoints ==
    (PlotHasFields /\ HasNonzero) =>
        /\ pc \in {"p_save", "exit"} =>
              /\ fig.points = ExpectedPoints
              /\ Len(fig.points) = HighestNonzero
              /\ \A i \in 1..HighestNonzero :
                    /\ fig.points[i][1] = 2 * i
                    /\ GapCounter[i + 1] = 0 => fig.points[i][2] = NegInf
        /\ pc = "exit" =>
              /\ err = "none"
              /\ exitCode = 0
              /\ plotFiles[PrimesSoFar].points = ExpectedPoints

C7_Witness ==
    /\ PlotHasFields
    /\ pc = "exit"
    /\ exitCode = 0
    /\ Len(GapCounter) > HighestNonzero + 1
    /\ HighestNonzero >= 2
    /\ \E i \in 1..(HighestNonzero - 1) : GapCounter[i + 1] = 0
    /\ Len(plotFiles[PrimesSoFar].points) = HighestNonzero

\* C8: when GapCounter is empty or all zero, the run fails with the error
\* raised while the last nonzero index is determined, no figure is created
\* and no image file is written
C8_AllZeroFails ==
    (PlotHasFields /\ ~HasNonzero) =>
        /\ ~fig.created
        /\ plotFiles = plotFiles0
        /\ pc \notin {"p_trunc", "p_drop", "p_log", "p_fig", "p_scatter", "p_save"}
        /\ pc = "exit" => (err = "ValueError" /\ exitCode = 1 /\ last_nonzero_y = -1)

C8_Witness ==
    /\ PlotHasFields
    /\ ~HasNonzero
    /\ Len(GapCounter) >= 2
    /\ pc = "exit"
    /\ err = "ValueError"
    /\ ~plotFiles[PrimesSoFar].exists

\* C10: when index 0 holds the only nonzero entry the run succeeds, plots no
\* point and still writes the image file; the degenerate-input error is raised
\* only when no index at all, index 0 included, holds a nonzero value
C10_OnlyIndexZero ==
    /\ (PlotHasFields /\ HasNonzero /\ HighestNonzero = 0 /\ pc = "exit") =>
          /\ err = "none"
          /\ exitCode = 0
          /\ last_nonzero_y = 0
          /\ plotFiles[PrimesSoFar].exists
          /\ plotFiles[PrimesSoFar].title = PrimesSoFar
          /\ plotFiles[PrimesSoFar].points = <<>>
    /\ (prog = "plot" /\ err = "ValueError") => (PlotHasFields /\ ~HasNonzero)

C10_Witness ==
    /\ PlotHasFields
    /\ pc = "exit"
    /\ Len(GapCounter) >= 2
    /\ GapCounter[1] # 0
    /\ \A i \in 2..Len(GapCounter) : GapCounter[i] = 0
    /\ plotFiles[PrimesSoFar].exists
    /\ plotFiles[PrimesSoFar].title = PrimesSoFar
    /\ plotFiles[PrimesSoFar].points = <<>>

====
